---- MODULE Spec2Model ----
(***************************************************************************)
(* A model of rendiff: the neighbourhood-tolerant image diff (diff.rs),    *)
(* its histogram (histogram.rs), the visualization (visualize.rs) and the  *)
(* threshold policy (threshold.rs).                                        *)
(*                                                                         *)
(* An image is a record [width, height, buf] whose buf is the row-major    *)
(* sequence of its pixels (imgref's ImgVec / ImgRef with stride = width).  *)
(* An RGBA pixel is a 4-tuple of bytes <<r, g, b, a>>; a magnitude map is  *)
(* an image whose pixels are single bytes.  A histogram is a function      *)
(* 0..255 -> Nat.  Option<T> is a sequence of length 0 (None) or 1 (Some). *)
(***************************************************************************)
EXTENDS Integers, Sequences, FiniteSets, TLC

VARIABLES
    actual,      \* diff's first argument
    expected,    \* diff's second argument
    difference,  \* Option<Difference>: what diff returned
    threshold,   \* Option<Threshold>: what Threshold::new returned
    given,       \* the Histogram handed to Threshold::allows
    verdict,     \* Option<bool>: what Threshold::allows returned
    args,        \* the arguments of the function called on its own
    ret,         \* Option<T>: what that function returned
    pc           \* where the caller is

vars == <<actual, expected, difference, threshold, given, verdict, args, ret, pc>>

----------------------------------------------------------------------------
(* Bounds of the model *)

\* Largest image width drawn for the inputs of diff.
MaxWidth == 4

\* Largest image height drawn for the inputs of diff.
MaxHeight == 3

\* Largest count in a bin of the histograms drawn for Threshold::allows, and
\* largest finite allowance of the bands drawn for Threshold::new.
MaxCount == 1

\* Largest number of (magnitude, allowance) pairs handed to Threshold::new.
MaxBands == 3

----------------------------------------------------------------------------
(* Small helpers *)

Magnitudes == 0..255

Max2(a, b) == IF a >= b THEN a ELSE b

Min2(a, b) == IF a <= b THEN a ELSE b

\* u8::abs_diff
abs_diff(a, b) == IF a >= b THEN a - b ELSE b - a

\* Iterator::min over a non-empty sequence of bytes
RECURSIVE SeqMinFrom(_, _)
SeqMinFrom(s, i) ==
    IF i = Len(s) THEN s[i] ELSE Min2(s[i], SeqMinFrom(s, i + 1))

SeqMin(s) == SeqMinFrom(s, 1)

----------------------------------------------------------------------------
(* imgref images, as diff.rs uses them *)

Img(buf, width, height) == [width |-> width, height |-> height, buf |-> buf]

\* image[(x, y)]
At(image, x, y) == image.buf[y * image.width + x + 1]

\* image.pixels(): the pixels in row-major order
pixels(image) == image.buf

\* image.sub_image(left, top, width, height), as an image of its own
sub_image(image, left, top, width, height) ==
    Img([i \in 1..(width * height) |->
            At(image, left + ((i - 1) % width), top + ((i - 1) \div width))],
        width, height)

\* fn dimensions
dimensions(image) == <<image.width, image.height>>

----------------------------------------------------------------------------
(* image.rs *)

\* fn rgba_to_luma: the weighted sum, and the `as u8` truncation
rgba_to_luma(pixel) ==
    LET luma == (2126 * pixel[1] + 7152 * pixel[2] + 722 * pixel[3]) \div 10000
    IN  luma % 256

----------------------------------------------------------------------------
(* histogram.rs *)

\* Histogram::ZERO
ZERO == [m \in Magnitudes |-> 0]

\* Mutant: the position of the first non-zero count
max_difference_first(h) ==
    LET nonzero == {i \in Magnitudes : h[i] # 0}
    IN  IF nonzero # {}
        THEN (CHOOSE position \in nonzero : \A i \in nonzero : position <= i) % 256
        ELSE 0

\* Histogram::max_difference: the position of the last non-zero count
\* (rposition), as a u8, or 0 when there is none
max_difference(h) ==
    LET nonzero == {i \in Magnitudes : h[i] # 0}
    IN  IF nonzero # {}
        THEN (CHOOSE position \in nonzero : \A i \in nonzero : i <= position) % 256
        ELSE 0

\* Mutant: bin 0 is listed in the default rendering too
listed_with_zero(h, alternate) == {delta \in Magnitudes : h[delta] > 0}

\* impl Debug, the filter of lines 62-65: the bins that are listed
listed(h, alternate) ==
    {delta \in Magnitudes : h[delta] > 0 /\ (delta > 0 \/ alternate)}

\* impl Debug, line 73: "\u0394{delta} \u00D7{count}"
entry(delta, count) == "Δ" \o ToString(delta) \o " ×" \o ToString(count)

\* impl Debug, lines 61-74: the loop over the bins still to write, in
\* ascending order, `written` being what the formatter holds so far
RECURSIVE fmt_loop(_, _, _, _)
fmt_loop(h, deltas, first, written) ==
    IF deltas = {} THEN written
    ELSE LET delta == CHOOSE d \in deltas : \A e \in deltas : d <= e
             separated == IF first THEN written ELSE written \o ", "
         IN  fmt_loop(h, deltas \ {delta}, FALSE,
                      separated \o entry(delta, h[delta]))

\* impl Debug for Histogram: the text written to the formatter
fmt(h, alternate) ==
    fmt_loop(h, listed(h, alternate), TRUE, "Histogram(") \o ")"

\* Itertools::join of the entries of the bins in `deltas`, in ascending order
RECURSIVE join(_, _, _)
join(h, deltas, sep) ==
    IF deltas = {} THEN ""
    ELSE LET delta == CHOOSE d \in deltas : \A e \in deltas : d <= e
             rest == deltas \ {delta}
         IN  IF rest = {} THEN entry(delta, h[delta])
             ELSE entry(delta, h[delta]) \o sep \o join(h, rest, sep)

\* impl Debug for Histogram as src/src/histogram.rs has it
fmt_joined(h, alternate) ==
    "Histogram(" \o join(h, listed(h, alternate), ", ") \o ")"

----------------------------------------------------------------------------
(* diff.rs *)

\* Mutant: the colour and the alpha differences add up
pixel_diff_sum(a, b) ==
    LET color_diff == rgba_to_luma(<<abs_diff(a[1], b[1]), abs_diff(a[2], b[2]),
                                     abs_diff(a[3], b[3]), 255>>)
    IN  Min2(color_diff + abs_diff(a[4], b[4]), 255)

\* fn pixel_diff
pixel_diff(a, b) ==
    LET r_diff == abs_diff(a[1], b[1])
        g_diff == abs_diff(a[2], b[2])
        b_diff == abs_diff(a[3], b[3])
        a_diff == abs_diff(a[4], b[4])
        color_diff == rgba_to_luma(<<r_diff, g_diff, b_diff, 255>>)
    IN  Min2(Max2(color_diff, a_diff), 255)

\* Mutant: a 2 x 2 block, which misses the right and the bottom neighbours
neighborhood_2x2(want, x, y) == sub_image(want, x, y, 2, 2)

\* Mutant: the pixel at the same position only, no displacement tolerated
neighborhood_centre_only(want, x, y) == sub_image(want, x + 1, y + 1, 1, 1)

\* Mutant: the row above only, which misses the pixel at the same position
neighborhood_row_above(want, x, y) == sub_image(want, x, y, 3, 1)

\* half_diff, line 109: the neighbourhood of `want` whose top-left corner is
\* (x, y), the position enumerated in the cropped `have`
neighborhood(want, x, y) == sub_image(want, x, y, 3, 3)

\* half_diff, lines 110-114: the smallest pixel_diff over the neighbourhood
minimum_diff_in_neighborhood(have_pixel, hood) ==
    SeqMin([j \in 1..Len(pixels(hood)) |-> pixel_diff(have_pixel, pixels(hood)[j])])

\* fn half_diff, for have.width() >= 2 and have.height() >= 2
half_diff(have, want) ==
    LET have_elems == sub_image(have, 1, 1, have.width - 2, have.height - 2)
        w == have_elems.width
        h == have_elems.height
        buffer == [i \in 1..(w * h) |->
                     LET x == (i - 1) % w
                         y == (i - 1) \div w
                     IN  minimum_diff_in_neighborhood(
                             At(have_elems, x, y), neighborhood(want, x, y))]
    IN  Img(buffer, w, h)

\* Mutant: only the scan of expected against actual is kept
combine_first_only(hd1, hd2) == Img(hd1.buf, hd1.width, hd1.height)

\* Mutant: only the scan of actual against expected is kept
combine_second_only(hd1, hd2) == Img(hd2.buf, hd1.width, hd1.height)

\* diff, lines 55-67: the pointwise maximum of the two half diffs
combine(hd1, hd2) ==
    Img([i \in 1..(hd1.width * hd1.height) |->
            LET x == (i - 1) % hd1.width
                y == (i - 1) \div hd1.width
            IN  Max2(At(hd1, x, y), At(hd2, x, y))],
        hd1.width, hd1.height)

\* Mutant: positions without a difference are not counted
RECURSIVE tally_differences_only(_, _, _)
tally_differences_only(histogram, values, i) ==
    IF i > Len(values) THEN histogram
    ELSE tally_differences_only(
             IF values[i] = 0 THEN histogram
             ELSE [histogram EXCEPT ![values[i]] = @ + 1],
             values, i + 1)

\* diff, lines 70-74: histogram[diff_value] += 1 for the values from index i on
RECURSIVE tally(_, _, _)
tally(histogram, values, i) ==
    IF i > Len(values) THEN histogram
    ELSE tally([histogram EXCEPT ![values[i]] = @ + 1], values, i + 1)

----------------------------------------------------------------------------
(* visualize.rs *)

\* Mutant: the NaN of 0.0 / 0.0 becomes full brightness
amplify_nan_is_max(raw_diff_value, max) ==
    IF max = 0 THEN 255 ELSE Min2((raw_diff_value * 255) \div max, 255)

\* visualize, line 28: (f64::from(raw_diff_value) / max_difference * 255.0) as u8.
\* 0.0 / 0.0 is NaN, which `as u8` turns into 0; x / 0.0 is +inf for x > 0,
\* which saturates to 255.  For 0 <= raw <= max the f64 result truncates to
\* the integer quotient (raw * 255) div max for every pair of bytes.
amplify(raw_diff_value, max) ==
    IF max = 0
    THEN IF raw_diff_value = 0 THEN 0 ELSE 255
    ELSE Min2((raw_diff_value * 255) \div max, 255)

\* fn visualize
visualize(reference, raw_diff_image, histogram) ==
    LET max == max_difference(histogram)
        w == raw_diff_image.width
        h == raw_diff_image.height
    IN  Img([i \in 1..(w * h) |->
                LET x == (i - 1) % w
                    y == (i - 1) \div w
                    reference_value == rgba_to_luma(At(reference, x + 1, y + 1))
                    amplified_difference == amplify(At(raw_diff_image, x, y), max)
                IN  <<reference_value \div 3, amplified_difference,
                      amplified_difference, 255>>],
            w, h)

----------------------------------------------------------------------------
(* threshold.rs *)

\* usize::MAX (threshold.rs line 64), in the model's integer range: above
\* every sum of counts the model can form
UsizeMax == 2147483647

\* slice.iter().sum::<usize>() of histogram.0[from..to]
RECURSIVE sum_at(_, _)
sum_at(h, indices) ==
    IF indices = {} THEN 0
    ELSE LET i == CHOOSE j \in indices : TRUE
         IN  h[i] + sum_at(h, indices \ {i})

slice_sum(h, from, to) == sum_at(h, {i \in from..(to - 1) : h[i] # 0})

\* Mutant: the magnitudes are not looked at, 0 is kept as a level
new_accepting_zero(data) ==
    LET keys == {data[i][1] : i \in 1..Len(data)}
        last(key) == CHOOSE i \in 1..Len(data) :
                         /\ data[i][1] = key
                         /\ \A j \in (i + 1)..Len(data) : data[j][1] # key
    IN  <<[key \in keys |-> data[last(key)][2]]>>

\* Mutant: pairs of magnitude 0 are dropped without a word
new_ignoring_zero(data) ==
    LET kept == SelectSeq(data, LAMBDA pair : pair[1] > 0)
        keys == {kept[i][1] : i \in 1..Len(kept)}
        last(key) == CHOOSE i \in 1..Len(kept) :
                         /\ kept[i][1] = key
                         /\ \A j \in (i + 1)..Len(kept) : kept[j][1] # key
    IN  <<[key \in keys |-> kept[last(key)][2]]>>

\* Threshold::new: <<>> when the assertion `key > 0` fails, else the BTreeMap
\* collected from the pairs (a later pair replaces an earlier one of its key)
new(data) ==
    IF \E i \in 1..Len(data) : ~(data[i][1] > 0)
    THEN <<>>
    ELSE LET keys == {data[i][1] : i \in 1..Len(data)}
             last(key) == CHOOSE i \in 1..Len(data) :
                              /\ data[i][1] = key
                              /\ \A j \in (i + 1)..Len(data) : data[j][1] # key
         IN  <<[key \in keys |-> data[last(key)][2]]>>

\* Mutant: the single band allows one difference only
no_bigger_than_single(magnitude) ==
    IF magnitude = 0 THEN new(<<>>) ELSE new(<<<<magnitude, 1>>>>)

\* Threshold::no_bigger_than
no_bigger_than(magnitude) ==
    IF magnitude = 0 THEN new(<<>>) ELSE new(<<<<magnitude, UsizeMax>>>>)

\* Mutant: a band filled exactly to its allowance is rejected
reaches(new_differences, count) == new_differences >= count

\* allows, line 83: whether the band's differences exceed its allowance
exceeds(new_differences, count) == new_differences > count

\* Mutant: what a band lets through beyond its allowance is carried over to
\* the next band, and only the highest band can reject
RECURSIVE allows_from_carrying(_, _, _, _)
allows_from_carrying(bands, levels, h, checked_up_to) ==
    IF levels = {}
    THEN ~(slice_sum(h, checked_up_to, 256) > 0)
    ELSE LET level == CHOOSE l \in levels : \A m \in levels : l <= m
             new_differences == slice_sum(h, checked_up_to, level + 1)
         IN  IF levels = {level}
             THEN IF exceeds(new_differences, bands[level])
                  THEN FALSE
                  ELSE allows_from_carrying(bands, {}, h, level + 1)
             ELSE allows_from_carrying(bands, levels \ {level}, h, checked_up_to)

\* allows, lines 73-97: the loop over the bands still to visit, in ascending
\* order of level, and the final check of what lies above them
RECURSIVE allows_from(_, _, _, _)
allows_from(bands, levels, h, checked_up_to) ==
    IF levels = {}
    THEN LET remaining_differences == slice_sum(h, checked_up_to, 256)
         IN  ~(remaining_differences > 0)
    ELSE LET level == CHOOSE l \in levels : \A m \in levels : l <= m
             count == bands[level]
             new_checked_up_to == level + 1
             new_differences == slice_sum(h, checked_up_to, new_checked_up_to)
         IN  IF exceeds(new_differences, count)
             THEN FALSE
             ELSE allows_from(bands, levels \ {level}, h, new_checked_up_to)

\* Threshold::allows
allows(bands, h) == allows_from(bands, DOMAIN bands, h, 1)

\* iter().sum::<usize>() over the counts at `indices`, added to acc: <<>>
\* when an addition overflows usize
RECURSIVE checked_sum(_, _, _)
checked_sum(h, indices, acc) ==
    IF indices = {} THEN <<acc>>
    ELSE LET i == CHOOSE j \in indices : TRUE
         IN  IF h[i] > UsizeMax - acc THEN <<>>
             ELSE checked_sum(h, indices \ {i}, acc + h[i])

\* histogram.0[from..to].iter().sum::<usize>(): <<>> when the range is not
\* one of the 256 counters (from > to or to > 256) or the sum overflows
checked_slice_sum(h, from, to) ==
    IF from > to \/ to > 256 THEN <<>>
    ELSE checked_sum(h, {i \in from..(to - 1) : h[i] # 0}, 0)

\* allows, lines 73-97, with what can stop it in a build with debug
\* assertions: the Option<bool> it returns, <<>> when it panics
RECURSIVE allows_outcome_from(_, _, _, _)
allows_outcome_from(bands, levels, h, checked_up_to) ==
    IF levels = {}
    THEN LET remaining_differences == checked_slice_sum(h, checked_up_to, 256)
         IN  IF remaining_differences = <<>> THEN <<>>
             ELSE <<~(remaining_differences[1] > 0)>>
    ELSE LET level == CHOOSE l \in levels : \A m \in levels : l <= m
             count == bands[level]
             new_checked_up_to == level + 1
             new_differences == checked_slice_sum(h, checked_up_to, new_checked_up_to)
         IN  IF ~(new_checked_up_to > checked_up_to) THEN <<>>
             ELSE IF new_differences = <<>> THEN <<>>
             ELSE IF exceeds(new_differences[1], count) THEN <<FALSE>>
             ELSE allows_outcome_from(bands, levels \ {level}, h, new_checked_up_to)

allows_outcome(bands, h) == allows_outcome_from(bands, DOMAIN bands, h, 1)

----------------------------------------------------------------------------
(* fn diff *)

\* Mutant: the smaller of the two pixel counts
mismatch_counts_smaller(act, exp) ==
    [histogram |-> [ZERO EXCEPT ![255] =
                        Min2(Len(pixels(exp)), Len(pixels(act)))],
     diff_image |-> <<>>]

\* diff, lines 39-49: the images have different sizes
mismatch_difference(act, exp) ==
    [histogram |-> [ZERO EXCEPT ![255] =
                        Max2(Len(pixels(exp)), Len(pixels(act)))],
     diff_image |-> <<>>]

\* Mutant: no diff image when no difference was found
no_image_when_equal(act, exp) ==
    LET raw_diff_image == combine(half_diff(exp, act), half_diff(act, exp))
        histogram == tally(ZERO, pixels(raw_diff_image), 1)
    IN  [histogram |-> histogram,
         diff_image |-> IF max_difference(histogram) = 0 THEN <<>>
                        ELSE <<visualize(exp, raw_diff_image, histogram)>>]

\* Mutant: the diff image is drawn over the actual image
same_size_difference_over_actual(act, exp) ==
    LET raw_diff_image == combine(half_diff(exp, act), half_diff(act, exp))
        histogram == tally(ZERO, pixels(raw_diff_image), 1)
    IN  [histogram |-> histogram,
         diff_image |-> <<visualize(act, raw_diff_image, histogram)>>]

\* diff, lines 51-83: the images have the same size
same_size_difference(act, exp) ==
    LET hd1 == half_diff(exp, act)
        hd2 == half_diff(act, exp)
        raw_diff_image == combine(hd1, hd2)
        histogram == tally(ZERO, pixels(raw_diff_image), 1)
    IN  [histogram |-> histogram,
         diff_image |-> <<visualize(exp, raw_diff_image, histogram)>>]

\* diff, lines 51-67: the magnitude map diff builds for same-size images
raw_diff_image_of(act, exp) == combine(half_diff(exp, act), half_diff(act, exp))

\* The outcomes of diff(actual, expected): <<d>> when it returns the
\* Difference d, <<>> when it panics.
\*  - `have.width() - 2` and `have.height() - 2` (line 98) are usize
\*    subtractions: below 2 they overflow, which panics in a build with
\*    overflow checks and otherwise wraps to a width or height that no
\*    sub-image of `have` has.
\*  - with a width or height of exactly 2 the cropped image is empty, and
\*    whether an image of width 0 or a row iterator over height 0 can be made
\*    is decided inside the imgref crate: both outcomes are kept.
diff(act, exp) ==
    IF dimensions(exp) # dimensions(act)
    THEN {<<mismatch_difference(act, exp)>>}
    ELSE IF act.width < 2 \/ act.height < 2
    THEN {<<>>}
    ELSE IF act.width = 2 \/ act.height = 2
    THEN {<<>>, <<same_size_difference(act, exp)>>}
    ELSE {<<same_size_difference(act, exp)>>}

----------------------------------------------------------------------------
(* Inputs: the images handed to diff *)

Base == <<100, 100, 100, 255>>

Red == <<155, 100, 100, 255>>

Tint == <<110, 100, 100, 249>>

Palette == {Base, Red, Tint}

\* Buffer indices of one pixel, of one column, of one row, or of nothing
Features(w, h) ==
    {{}}
    \cup {{i} : i \in 1..(w * h)}
    \cup {{i \in 1..(w * h) : (i - 1) % w = c} : c \in 0..(w - 1)}
    \cup {{i \in 1..(w * h) : (i - 1) \div w = r} : r \in 0..(h - 1)}

\* A w x h image of colour bg with the pixels of F painted fg
Painted(w, h, bg, fg, F) ==
    Img([i \in 1..(w * h) |-> IF i \in F THEN fg ELSE bg], w, h)

\* The images drawn for a same-size comparison: a feature on a Base ground
Images(w, h) ==
    {Painted(w, h, Base, fg, F) : fg \in Palette, F \in Features(w, h)}

\* The images drawn for a comparison of different sizes, which reads only
\* their dimensions and lengths
PlainImages(w, h) == {Painted(w, h, bg, bg, {}) : bg \in Palette}

\* imgref makes no image of width 0 (its stride must be positive); height 0 is
\* an image with no rows.
Sizes == (1..MaxWidth) \X (0..MaxHeight)

----------------------------------------------------------------------------
(* The caller: build two images, call diff *)

\* No function is called on its own while diff or Threshold is exercised
CallIdle ==
    /\ args = <<>>
    /\ ret = <<>>

\* No Threshold is in use while diff is exercised
ThresholdIdle ==
    /\ threshold = <<>>
    /\ given = <<>>
    /\ verdict = <<>>

Init ==
    /\ \E sa \in Sizes, se \in Sizes :
          IF sa = se
          THEN /\ actual \in Images(sa[1], sa[2])
               /\ expected \in Images(se[1], se[2])
          ELSE /\ actual \in PlainImages(sa[1], sa[2])
               /\ expected \in PlainImages(se[1], se[2])
    /\ pc = "call"
    /\ difference = <<>>
    /\ ThresholdIdle
    /\ CallIdle

\* rendiff::diff(actual, expected)
Diff ==
    /\ pc = "call"
    /\ \E outcome \in diff(actual, expected) :
          /\ difference' = outcome
          /\ pc' = IF outcome = <<>> THEN "panicked" ELSE "returned"
    /\ UNCHANGED <<actual, expected, threshold, given, verdict, args, ret>>

Next == Diff

Spec == Init /\ [][Next]_vars

----------------------------------------------------------------------------
(* The caller of Threshold: build a threshold, test a histogram against it *)

\* Magnitudes of the bands drawn for Threshold::new (0 is the forbidden one)
BandLevels == {0, 1, 2, 255}

Allowances == (0..MaxCount) \cup {UsizeMax}

RECURSIVE SeqsUpTo(_, _)
SeqsUpTo(S, n) ==
    IF n = 0 THEN {<<>>}
    ELSE LET shorter == SeqsUpTo(S, n - 1)
         IN  shorter \cup {Append(q, e) : q \in {r \in shorter : Len(r) = n - 1}, e \in S}

DataInputs == SeqsUpTo(BandLevels \X Allowances, MaxBands)

\* Magnitudes at which the histograms drawn for Threshold::allows have mass
MassAt == {0, 1, 2, 3, 255}

HistogramInputs ==
    {[m \in Magnitudes |-> IF m \in MassAt THEN c[m] ELSE 0] :
        c \in [MassAt -> 0..MaxCount]}

\* No diff is in progress while Threshold is exercised
DiffIdle ==
    /\ actual = Img(<<>>, 1, 0)
    /\ expected = Img(<<>>, 1, 0)
    /\ difference = <<>>

InitThreshold ==
    /\ DiffIdle
    /\ ThresholdIdle
    /\ CallIdle
    /\ pc = "new"

\* Threshold::new(data)
New ==
    /\ pc = "new"
    /\ \E data \in DataInputs :
          /\ threshold' = new(data)
          /\ pc' = IF new(data) = <<>> THEN "new_panicked" ELSE "built"
    /\ UNCHANGED <<actual, expected, difference, given, verdict, args, ret>>

\* Threshold::no_bigger_than(magnitude)
NoBiggerThan ==
    /\ pc = "new"
    /\ \E magnitude \in Magnitudes :
          threshold' = no_bigger_than(magnitude)
    /\ pc' = "built"
    /\ UNCHANGED <<actual, expected, difference, given, verdict, args, ret>>

\* threshold.allows(histogram)
Allows ==
    /\ pc = "built"
    /\ \E h \in HistogramInputs :
          /\ given' = h
          /\ verdict' = <<allows(threshold[1], h)>>
    /\ pc' = "checked"
    /\ UNCHANGED <<actual, expected, difference, threshold, args, ret>>

\* The pairs of images whose diff is handed on to a Threshold
DiffInputs ==
    (Images(MaxWidth, MaxHeight) \X Images(MaxWidth, MaxHeight))
    \cup (PlainImages(MaxWidth, MaxHeight) \X PlainImages(1, 1))
    \cup (PlainImages(1, 0) \X PlainImages(1, 1))

\* The histograms of the Differences diff returns for them
DiffHistograms ==
    {outcome[1].histogram :
        outcome \in {o \in UNION {diff(p[1], p[2]) : p \in DiffInputs} : o # <<>>}}

\* threshold.allows(difference.histogram), as main does with what diff
\* returned
AllowsDifference ==
    /\ pc = "built"
    /\ \E h \in DiffHistograms :
          /\ given' = h
          /\ verdict' = allows_outcome(threshold[1], h)
          /\ pc' = IF allows_outcome(threshold[1], h) = <<>>
                   THEN "allows_panicked" ELSE "checked_difference"
    /\ UNCHANGED <<actual, expected, difference, threshold, args, ret>>

NextThreshold == New \/ NoBiggerThan \/ Allows \/ AllowsDifference

SpecThreshold == InitThreshold /\ [][NextThreshold]_vars

----------------------------------------------------------------------------
(* Threshold::new called on its own, its argument kept for inspection *)

InitNew ==
    /\ DiffIdle
    /\ ThresholdIdle
    /\ args \in {<<data>> : data \in DataInputs}
    /\ ret = <<>>
    /\ pc = "call_new"

\* Threshold::new(data), data being the argument held in args
NewCall ==
    /\ pc = "call_new"
    /\ threshold' = new(args[1])
    /\ pc' = IF new(args[1]) = <<>> THEN "new_panicked" ELSE "built"
    /\ UNCHANGED <<actual, expected, difference, given, verdict, args, ret>>

NextNew == NewCall

SpecNew == InitNew /\ [][NextNew]_vars

----------------------------------------------------------------------------
(* pixel_diff called on its own *)

\* Channel values of the first pixel
ChannelEnds == {0, 255}

\* Channel values of the second pixel
ChannelSamples == {0, 1, 2, 5, 14, 255}

InitPixel ==
    /\ DiffIdle
    /\ ThresholdIdle
    /\ args \in {<<a, b>> :
                    a \in ChannelEnds \X ChannelEnds \X ChannelEnds \X ChannelEnds,
                    b \in ChannelSamples \X ChannelSamples \X ChannelSamples \X ChannelSamples}
    /\ ret = <<>>
    /\ pc = "call_pixel_diff"

\* pixel_diff(a, b)
PixelDiff ==
    /\ pc = "call_pixel_diff"
    /\ ret' = <<pixel_diff(args[1], args[2])>>
    /\ pc' = "pixel_diff_returned"
    /\ UNCHANGED <<actual, expected, difference, threshold, given, verdict, args>>

NextPixel == PixelDiff

SpecPixel == InitPixel /\ [][NextPixel]_vars

----------------------------------------------------------------------------
(* The methods of Histogram called on their own *)

\* Magnitudes at which the histograms drawn for these calls have mass
SampleMagnitudes == {0, 10, 50, 255}

\* The counts they have there
SampleCounts == (0..MaxCount) \cup {5, 1000}

HistogramSamples ==
    {[m \in Magnitudes |-> IF m \in SampleMagnitudes THEN c[m] ELSE 0] :
        c \in [SampleMagnitudes -> SampleCounts]}

InitHistogram ==
    /\ DiffIdle
    /\ threshold = <<>>
    /\ verdict = <<>>
    /\ given \in HistogramSamples
    /\ CallIdle
    /\ pc = "call_histogram"

\* histogram.max_difference()
MaxDifference ==
    /\ pc = "call_histogram"
    /\ ret' = <<max_difference(given)>>
    /\ pc' = "max_difference_returned"
    /\ UNCHANGED <<actual, expected, difference, threshold, given, verdict, args>>

\* format!("{histogram:?}") and format!("{histogram:#?}")
Fmt ==
    /\ pc = "call_histogram"
    /\ \E alternate \in BOOLEAN :
          /\ args' = <<alternate>>
          /\ ret' = <<fmt(given, alternate)>>
    /\ pc' = "fmt_returned"
    /\ UNCHANGED <<actual, expected, difference, threshold, given, verdict>>

\* The same two calls on the Histogram of src/src/histogram.rs
FmtJoined ==
    /\ pc = "call_histogram"
    /\ \E alternate \in BOOLEAN :
          /\ args' = <<alternate>>
          /\ ret' = <<fmt_joined(given, alternate)>>
    /\ pc' = "fmt_joined_returned"
    /\ UNCHANGED <<actual, expected, difference, threshold, given, verdict>>

NextHistogram == MaxDifference \/ Fmt \/ FmtJoined

SpecHistogram == InitHistogram /\ [][NextHistogram]_vars

----------------------------------------------------------------------------
(* Vocabulary of the properties *)

Returned == pc = "returned"

SameSize == dimensions(actual) = dimensions(expected)

\* The Difference that diff returned
TheDifference == difference[1]

MinOf(S) == CHOOSE m \in S : \A n \in S : m <= n

\* Positions with a full ring of neighbours, in the W x H image's own frame
Interior(W, H) == (1..(W - 2)) \X (1..(H - 2))

\* The nine positions of the 3 x 3 block centred at p
Around(p) == {<<p[1] + dx, p[2] + dy>> : dx \in {-1, 0, 1}, dy \in {-1, 0, 1}}

\* The least pixel_diff of have's pixel at p to want's pixels around p
NearestIn(have, want, p) ==
    MinOf({pixel_diff(At(have, p[1], p[2]), At(want, q[1], q[2])) : q \in Around(p)})

\* The magnitude the two-directional comparison gives position p
MagnitudeAt(p) ==
    Max2(NearestIn(expected, actual, p), NearestIn(actual, expected, p))

AllMassAtZero(h) == \A k \in 1..255 : h[k] = 0

----------------------------------------------------------------------------
(* C1 *)

\* C1: for same-size W x H images, diff gives every interior position (x, y),
\* 1 <= x <= W-2 and 1 <= y <= H-2, the magnitude max(m1, m2), m1 the least
\* pixel_diff of expected(x, y) to the nine pixels of actual around (x, y) and
\* m2 the least pixel_diff of actual(x, y) to the nine pixels of expected
\* around (x, y); histogram bin k counts the interior positions of magnitude k.
C1_NeighbourhoodMagnitudes ==
    (Returned /\ SameSize) =>
        LET W == actual.width
            H == actual.height
            raw == raw_diff_image_of(actual, expected)
            \* the pairs <<position, its magnitude>>
            magnitudes == {<<p, MagnitudeAt(p)>> : p \in Interior(W, H)}
        IN  /\ dimensions(raw) = <<W - 2, H - 2>>
            /\ \A pm \in magnitudes :
                  At(raw, pm[1][1] - 1, pm[1][2] - 1) = pm[2]
            /\ \A k \in Magnitudes :
                  TheDifference.histogram[k] =
                      Cardinality({pm \in magnitudes : pm[2] = k})

\* Two interior positions of different non-zero magnitudes, one of them
\* decided by each direction of the comparison
C1_Witness ==
    /\ Returned /\ SameSize
    /\ \E p \in Interior(actual.width, actual.height),
          q \in Interior(actual.width, actual.height) :
          /\ 0 < MagnitudeAt(p) /\ MagnitudeAt(p) < MagnitudeAt(q)
          /\ NearestIn(expected, actual, p) > NearestIn(actual, expected, p)
          /\ NearestIn(expected, actual, q) < NearestIn(actual, expected, q)

----------------------------------------------------------------------------
(* C2 *)

\* C2: the histogram does not depend on the order of the arguments: for
\* same-size images, diff(expected, actual) returns the histogram that
\* diff(actual, expected) returned (the diff images may differ).
C2_HistogramSymmetric ==
    (Returned /\ SameSize) =>
        \A swapped \in diff(expected, actual) :
            swapped # <<>> => swapped[1].histogram = TheDifference.histogram

\* Two different images with a difference found, whose two diff images differ
C2_Witness ==
    /\ Returned /\ SameSize
    /\ actual # expected
    /\ ~AllMassAtZero(TheDifference.histogram)
    /\ \E swapped \in diff(expected, actual) :
          /\ swapped # <<>>
          /\ swapped[1].diff_image # TheDifference.diff_image

----------------------------------------------------------------------------
(* C3 *)

\* The thresholds tried on a histogram: every no_bigger_than(k), and every
\* Threshold::new of the drawn data
SomeThresholds ==
    {no_bigger_than(k)[1] : k \in Magnitudes}
    \cup {new(d)[1] : d \in {e \in DataInputs : new(e) # <<>>}}

\* C3: diff(X, X) yields a histogram with all its mass at magnitude 0, which
\* every Threshold (no_bigger_than(0) among them) allows, and a diff image
\* whose green and blue channels are 0 at every position.
C3_Identity ==
    (Returned /\ actual = expected) =>
        /\ AllMassAtZero(TheDifference.histogram)
        /\ \A t \in SomeThresholds : allows(t, TheDifference.histogram)
        /\ TheDifference.diff_image # <<>>
        /\ LET image == TheDifference.diff_image[1]
           IN  \A i \in 1..Len(pixels(image)) :
                   pixels(image)[i][2] = 0 /\ pixels(image)[i][3] = 0

\* An image with a feature, diffed against itself over two positions
C3_Witness ==
    /\ Returned /\ actual = expected
    /\ \E i \in 1..Len(pixels(actual)) : pixels(actual)[i] # Base
    /\ TheDifference.histogram[0] >= 2
    /\ Len(pixels(TheDifference.diff_image[1])) >= 2

----------------------------------------------------------------------------
(* C4 *)

\* C4: when the two images differ in width or height, diff returns the
\* maximum difference: bin 255 holds the larger of the two pixel counts, every
\* other bin is 0, and diff_image is None.
C4_SizeMismatch ==
    (pc # "call" /\ ~SameSize) =>
        /\ Returned
        /\ TheDifference.histogram[255] =
               Max2(actual.width * actual.height, expected.width * expected.height)
        /\ \A k \in 0..254 : TheDifference.histogram[k] = 0
        /\ TheDifference.diff_image = <<>>

\* A larger actual against a smaller, non-empty expected
C4_Witness ==
    /\ Returned /\ ~SameSize
    /\ Len(pixels(expected)) > 0
    /\ Len(pixels(actual)) > Len(pixels(expected))
    /\ TheDifference.histogram[255] = Len(pixels(actual))

----------------------------------------------------------------------------
(* C5 *)

\* C5: the diff_image of a returned Difference is None exactly when the input
\* images differ in dimensions; for same-size N x M inputs it is there, also
\* when the histogram shows no difference, and its size is (N-2) x (M-2).
C5_DiffImagePresence ==
    Returned =>
        /\ (TheDifference.diff_image = <<>>) <=> ~SameSize
        /\ SameSize =>
              LET image == TheDifference.diff_image[1]
              IN  /\ dimensions(image) = <<actual.width - 2, actual.height - 2>>
                  /\ Len(pixels(image)) = (actual.width - 2) * (actual.height - 2)

\* Two different images in which no difference is found: the image is there
C5_Witness ==
    /\ Returned /\ SameSize
    /\ actual # expected
    /\ AllMassAtZero(TheDifference.histogram)
    /\ TheDifference.diff_image # <<>>
    /\ dimensions(TheDifference.diff_image[1]) = <<2, 1>>

----------------------------------------------------------------------------
(* C6 *)

RECURSIVE SumBins(_, _)
SumBins(h, bins) ==
    IF bins = {} THEN 0
    ELSE LET k == CHOOSE b \in bins : TRUE
         IN  h[k] + SumBins(h, bins \ {k})

\* The sum of the 256 counters (the empty bins add nothing)
Total(h) == SumBins(h, {k \in Magnitudes : h[k] # 0})

\* C6: the counters of a returned histogram sum to the number of compared
\* positions: (W-2)*(H-2) for same-size W x H inputs, and the larger of the
\* two pixel counts when the dimensions differ.
C6_HistogramTotal ==
    Returned =>
        Total(TheDifference.histogram) =
            IF SameSize
            THEN (actual.width - 2) * (actual.height - 2)
            ELSE Max2(actual.width * actual.height, expected.width * expected.height)

\* Same-size images whose positions fall into two different bins
C6_Witness ==
    /\ Returned /\ SameSize
    /\ Total(TheDifference.histogram) = 2
    /\ \E k \in 1..255 : TheDifference.histogram[k] = 1
    /\ TheDifference.histogram[0] = 1

----------------------------------------------------------------------------
(* C7 *)

\* C7: diff is total: for any pair of well-formed images, same-size images of
\* width or height 0, 1 or 2 included, it returns a Difference and never
\* panics or underflows.
C7_DiffIsTotal == pc # "panicked"

----------------------------------------------------------------------------
(* C8 *)

\* actual is expected moved by (dx, dy): actual(x, y) = expected(x+dx, y+dy)
\* wherever both positions are inside the image
Displaced(dx, dy) ==
    \A x \in 0..(actual.width - 1), y \in 0..(actual.height - 1) :
        (x + dx \in 0..(actual.width - 1) /\ y + dy \in 0..(actual.height - 1))
            => At(actual, x, y) = At(expected, x + dx, y + dy)

\* C8: a displacement of at most one pixel is ignored: if same-size actual is
\* expected moved by some (dx, dy) with dx, dy in {-1, 0, 1}, all the mass of
\* the histogram is at magnitude 0.
C8_OnePixelOffsetIgnored ==
    (Returned /\ SameSize /\ \E dx \in {-1, 0, 1}, dy \in {-1, 0, 1} : Displaced(dx, dy))
        => AllMassAtZero(TheDifference.histogram)

\* A feature moved diagonally by one pixel, compared at some position
C8_Witness ==
    /\ Returned /\ SameSize
    /\ actual # expected
    /\ Displaced(1, 1)
    /\ ~Displaced(0, 0) /\ ~Displaced(1, 0) /\ ~Displaced(0, 1)
    /\ TheDifference.histogram[0] >= 1

----------------------------------------------------------------------------
(* C9 *)

\* C9: a vanishing feature is flagged: if an interior pixel of either image
\* is at pixel distance >= d > 0 from all nine pixels of the other image
\* around its position, max_difference() of the histogram is >= d.
C9_VanishingFeatureFlagged ==
    (Returned /\ SameSize) =>
        \A p \in Interior(actual.width, actual.height) :
            /\ max_difference(TheDifference.histogram) >= NearestIn(actual, expected, p)
            /\ max_difference(TheDifference.histogram) >= NearestIn(expected, actual, p)

\* A pair in which the scan of actual against expected alone reports 0 at
\* every position, while expected holds a pixel with no match in actual
C9_Witness ==
    /\ Returned /\ SameSize
    /\ Interior(actual.width, actual.height) # {}
    /\ \A p \in Interior(actual.width, actual.height) :
          NearestIn(actual, expected, p) = 0
    /\ LET one_way == half_diff(actual, expected)
       IN  \A i \in 1..Len(pixels(one_way)) : pixels(one_way)[i] = 0
    /\ \E p \in Interior(actual.width, actual.height) :
          NearestIn(expected, actual, p) > 0
    /\ max_difference(TheDifference.histogram) > 0

----------------------------------------------------------------------------
(* C10 *)

MaxOf(S) == CHOOSE m \in S : \A n \in S : n <= m

\* The level of the band below `level`, 0 for the lowest band
PreviousLevel(bands, level) ==
    MaxOf({0} \cup {l \in DOMAIN bands : l < level})

\* The counts of h at the magnitudes lo+1 .. hi
CountBetween(h, lo, hi) == SumBins(h, {k \in (lo + 1)..hi : h[k] # 0})

\* (a): no band holds more than its allowance
BandsRespected(bands, h) ==
    \A level \in DOMAIN bands :
        CountBetween(h, PreviousLevel(bands, level), level) <= bands[level]

\* (b): nothing lies above the highest level (above 0 without any band)
NothingAbove(bands, h) ==
    CountBetween(h, MaxOf({0} \cup DOMAIN bands), 255) = 0

\* C10: allows(h) is true exactly when (a) for every band (level, allowance)
\* the counts of h at the magnitudes above the previous band's level (above 0
\* for the first band) and up to level sum to at most allowance, and (b) the
\* counts above the highest level sum to zero; the count at magnitude 0 never
\* changes the verdict.
C10_AllowsIffBandsRespected ==
    pc = "checked" =>
        /\ verdict[1] = (BandsRespected(threshold[1], given) /\ NothingAbove(threshold[1], given))
        /\ \A c \in 0..(MaxCount + 1) :
               allows(threshold[1], [given EXCEPT ![0] = c]) = verdict[1]

\* An accepted histogram that fills two bands exactly, with mass at 0 and
\* mass strictly inside a band
C10_Witness ==
    /\ pc = "checked"
    /\ verdict = <<TRUE>>
    /\ given[0] > 0 /\ given[3] > 0
    /\ \E low \in DOMAIN threshold[1], high \in DOMAIN threshold[1] :
          /\ low < high
          /\ threshold[1][low] > 0
          /\ CountBetween(given, 0, low) = threshold[1][low]
          /\ CountBetween(given, low, high) = threshold[1][high]

----------------------------------------------------------------------------
(* C11 *)

\* The magnitudes at which h has a non-zero count
NonZeroBins(h) == {m \in Magnitudes : h[m] # 0}

\* The k for which the threshold in use is no_bigger_than(k): its only
\* level, or 0 when it has no band
ThresholdOf ==
    {j \in {0} \cup DOMAIN threshold[1] : threshold = no_bigger_than(j)}

\* C11: for every k in 0..255 and every histogram h,
\* no_bigger_than(k).allows(h) is true exactly when h has no non-zero bin at
\* a magnitude greater than k: any number of differences of magnitude <= k
\* is accepted, one difference of magnitude k+1 is rejected, and
\* no_bigger_than(0) accepts only histograms with all their mass at 0.
C11_NoBiggerThan ==
    pc = "checked" =>
        \A k \in ThresholdOf :
            /\ verdict[1] = (\A m \in NonZeroBins(given) : m <= k)
            /\ k < 255 => ~allows(threshold[1], [given EXCEPT ![k + 1] = 1])
            /\ verdict[1] =>
                   allows(threshold[1], [given EXCEPT ![k] = @ + MaxCount + 1])
            /\ k = 0 => (verdict[1] = AllMassAtZero(given))

\* no_bigger_than(2) accepting a histogram with mass at 0, at 1 and at 2
C11_Witness ==
    /\ pc = "checked"
    /\ threshold = no_bigger_than(2)
    /\ verdict = <<TRUE>>
    /\ given[0] > 0 /\ given[1] > 0 /\ given[2] > 0

----------------------------------------------------------------------------
(* C12 *)

\* The levels of the bands above `level`
HigherLevels(bands, level) == {l \in DOMAIN bands : l > level}

\* The thresholds that are `bands` up to `level` and more generous above it:
\* the higher bands in `raised` get an unlimited allowance, and unlimited
\* bands are added at the levels in `added`
MoreGenerousAbove(bands, level) ==
    {[l \in DOMAIN bands \cup added |->
          IF l \in raised \cup added THEN UsizeMax ELSE bands[l]] :
        raised \in SUBSET HigherLevels(bands, level),
        added \in SUBSET ({level + 1, 255} \ ({level} \cup DOMAIN bands))}

\* C12: there is no carry-over between bands: if the count of the histogram
\* inside some band's own range (previous level, level] exceeds that band's
\* allowance, allows rejects, whatever allowances (unlimited ones too) the
\* higher bands have; adding higher bands or raising their allowances never
\* turns such a rejection into an acceptance.
C12_NoCarryOver ==
    pc = "checked" =>
        \A level \in DOMAIN threshold[1] :
            CountBetween(given, PreviousLevel(threshold[1], level), level)
                    > threshold[1][level]
                => /\ verdict = <<FALSE>>
                   /\ \A generous \in MoreGenerousAbove(threshold[1], level) :
                          ~allows(generous, given)

\* A rejection by the lowest band, under an unlimited higher band that holds
\* nothing beyond what lies in its own range, and with nothing above it
C12_Witness ==
    /\ pc = "checked"
    /\ verdict = <<FALSE>>
    /\ \E low \in DOMAIN threshold[1], high \in DOMAIN threshold[1] :
          /\ low < high
          /\ PreviousLevel(threshold[1], low) = 0
          /\ CountBetween(given, 0, low) > threshold[1][low]
          /\ threshold[1][high] = UsizeMax
          /\ CountBetween(given, high, 255) = 0

----------------------------------------------------------------------------
(* C13 *)

\* The magnitudes of the pairs handed to Threshold::new
SuppliedMagnitudes == {args[1][i][1] : i \in 1..Len(args[1])}

\* C13: Threshold::new rejects a zero magnitude at once: if any supplied
\* (magnitude, allowance) pair has magnitude 0, the construction panics and
\* no Threshold is produced; if every magnitude is in 1..255 it succeeds.
C13_NewRejectsZero ==
    pc \in {"new_panicked", "built"} =>
        /\ 0 \in SuppliedMagnitudes => (pc = "new_panicked" /\ threshold = <<>>)
        /\ SuppliedMagnitudes \subseteq 1..255 =>
               /\ pc = "built"
               /\ threshold # <<>>
               /\ DOMAIN threshold[1] = SuppliedMagnitudes

\* A panic on a zero magnitude that comes after a valid pair and has an
\* unlimited allowance
C13_Witness ==
    /\ pc = "new_panicked"
    /\ threshold = <<>>
    /\ Len(args[1]) >= 2
    /\ args[1][1][1] > 0
    /\ \E i \in 2..Len(args[1]) : args[1][i] = <<0, UsizeMax>>

----------------------------------------------------------------------------
(* C14 *)

\* C14: for every histogram, max_difference() returns the highest magnitude
\* whose count is non-zero, and 0 when all 256 counts are zero: 0 is returned
\* for the empty histogram and for one with mass at magnitude 0 only.
C14_MaxDifference ==
    pc = "max_difference_returned" =>
        /\ ret # <<>>
        /\ ret[1] \in Magnitudes
        /\ \A k \in Magnitudes : given[k] # 0 => k <= ret[1]
        /\ given[ret[1]] # 0 \/ (ret[1] = 0 /\ given = ZERO)
        /\ AllMassAtZero(given) => ret[1] = 0

\* A histogram with mass at 0 and at two higher magnitudes, the highest of
\* them returned
C14_Witness ==
    /\ pc = "max_difference_returned"
    /\ given[0] > 0 /\ given[10] > 0 /\ given[50] > given[10]
    /\ given[255] = 0
    /\ ret = <<50>>

----------------------------------------------------------------------------
(* C15 *)

\* C15: a magnitude of 0 means identical: for all pixels a and b,
\* pixel_diff(a, b) = 0 if and only if a and b are equal in all four
\* channels.
C15_ZeroMeansIdentical ==
    pc = "pixel_diff_returned" => (ret = <<0>> <=> args[1] = args[2])

----------------------------------------------------------------------------
(* C16 *)

\* The absolute difference of the two pixels in channel c
ChannelDistance(c) ==
    IF args[1][c] >= args[2][c] THEN args[1][c] - args[2][c]
    ELSE args[2][c] - args[1][c]

\* The weighted sum of the colour distances, before it is made a byte
LumaOfDistances ==
    (2126 * ChannelDistance(1) + 7152 * ChannelDistance(2)
        + 722 * ChannelDistance(3)) \div 10000

\* C16: for all pixels a and b, pixel_diff(a, b) = max(luma, |a.A - b.A|),
\* luma = (2126*|a.R - b.R| + 7152*|a.G - b.G| + 722*|a.B - b.B|) div 10000;
\* luma always fits in a byte, so the result is always in 0..255, and colour
\* and alpha are not weighted against each other.
C16_PixelDiffFormula ==
    pc = "pixel_diff_returned" =>
        /\ LumaOfDistances \in 0..255
        /\ ret[1] \in 0..255
        /\ ret[1] >= LumaOfDistances /\ ret[1] >= ChannelDistance(4)
        /\ ret[1] = LumaOfDistances \/ ret[1] = ChannelDistance(4)

\* The colour distance at its largest, 255 in every channel, next to a
\* smaller, non-zero alpha distance
C16_Witness ==
    /\ pc = "pixel_diff_returned"
    /\ ChannelDistance(1) = 255 /\ ChannelDistance(2) = 255
    /\ ChannelDistance(3) = 255
    /\ ChannelDistance(4) \in 1..254
    /\ LumaOfDistances = 255
    /\ ret = <<255>>

----------------------------------------------------------------------------
(* C17 *)

\* For every interior position p of the inputs: its magnitude, the pixel
\* the diff image has for it, and the luma of the expected image at p
DiffImageCells ==
    LET image == TheDifference.diff_image[1]
    IN  {<<MagnitudeAt(p), At(image, p[1] - 1, p[2] - 1),
           rgba_to_luma(At(expected, p[1], p[2]))>> :
            p \in Interior(actual.width, actual.height)}

\* C17: for same-size inputs the pixel of the diff image at (x, y) is
\* [luma(expected(x+1, y+1)) div 3, g, g, 255]: red comes from the expected
\* image, alpha is 255, and g is the magnitude at (x, y) rescaled so that the
\* largest magnitude of the histogram maps to 255: g = 255 where the
\* magnitude is max_difference() > 0, g = 0 where it is 0, and a larger
\* magnitude never has a smaller g.
C17_DiffImagePixels ==
    (Returned /\ SameSize) =>
        LET cells == DiffImageCells
            max == max_difference(TheDifference.histogram)
        IN  /\ \A c \in cells :
                  /\ c[2][1] = c[3] \div 3
                  /\ c[2][2] = c[2][3]
                  /\ c[2][4] = 255
                  /\ c[1] = 0 => c[2][2] = 0
                  /\ (c[1] = max /\ max > 0) => c[2][2] = 255
            /\ \A c \in cells, d \in cells :
                  c[1] <= d[1] => c[2][2] <= d[2][2]

\* Two positions of different non-zero magnitudes, the smaller one drawn
\* between 0 and 255, and a position where the two inputs would give
\* different reds
C17_Witness ==
    /\ Returned /\ SameSize
    /\ \E c \in DiffImageCells, d \in DiffImageCells :
          /\ 0 < c[1] /\ c[1] < d[1]
          /\ 0 < c[2][2] /\ c[2][2] < 255
          /\ d[2][2] = 255
    /\ \E p \in Interior(actual.width, actual.height) :
          rgba_to_luma(At(expected, p[1], p[2])) \div 3
              # rgba_to_luma(At(actual, p[1], p[2])) \div 3

----------------------------------------------------------------------------
(* C18 *)

\* The entries of the bins in `bins`, highest last, with ", " between them
RECURSIVE Listing(_, _)
Listing(h, bins) ==
    IF bins = {} THEN ""
    ELSE LET m == MaxOf(bins)
             lower == bins \ {m}
             this == "Δ" \o ToString(m) \o " ×" \o ToString(h[m])
         IN  IF lower = {} THEN this ELSE Listing(h, lower) \o ", " \o this

\* C18: the Debug text of a histogram lists, in ascending order of magnitude
\* and with ", " between them, one entry "\u0394m \u00D7c" for each bin m
\* whose count c is non-zero; the default rendering leaves bin 0 out, the
\* alternate one has bin 0 when its count is non-zero, and a histogram with
\* no listed bin is rendered "Histogram()" in both.
C18_DebugSummary ==
    pc \in {"fmt_returned", "fmt_joined_returned"} =>
        LET alternate == args[1]
            bins == IF alternate THEN NonZeroBins(given)
                    ELSE NonZeroBins(given) \ {0}
        IN  /\ ret = <<"Histogram(" \o Listing(given, bins) \o ")">>
            /\ bins = {} => ret = <<"Histogram()">>

\* The histogram of the test fmt_nonempty in its default rendering, which
\* leaves out the 1000 differences of magnitude 0
C18_Witness ==
    /\ pc = "fmt_returned"
    /\ given[0] = 1000 /\ given[10] = 5 /\ given[50] = 1 /\ given[255] = 0
    /\ args = <<FALSE>>
    /\ ret = <<"Histogram(Δ10 ×5, Δ50 ×1)">>

----------------------------------------------------------------------------
(* C19 *)

\* The upper bounds of the slices allows takes for the bands
BandBounds == {level + 1 : level \in DOMAIN threshold[1]}

\* The most pixels an image handed to diff has
LargestBuffer == MaxWidth * MaxHeight

\* C19: Threshold::allows always completes with a boolean: for every
\* Threshold built by new or no_bigger_than, a band at level 255 included,
\* and every histogram returned by diff, the upper bounds of the bands
\* visited are strictly increasing (the debug assertion holds), every slice
\* range stays within the indices 0..256, and the sums of the counts do not
\* overflow the counter.
C19_AllowsCompletes ==
    /\ pc # "allows_panicked"
    /\ pc = "checked_difference" =>
          /\ verdict \in {<<TRUE>>, <<FALSE>>}
          /\ verdict[1] = allows(threshold[1], given)
          /\ BandBounds \subseteq 2..256
          /\ Cardinality(BandBounds) = Cardinality(DOMAIN threshold[1])
          /\ \A from \in {1} \cup BandBounds, to \in BandBounds \cup {256} :
                from <= to =>
                    /\ CountBetween(given, from - 1, to - 1) <= Total(given)
                    /\ checked_slice_sum(given, from, to) # <<>>
          /\ Total(given) <= LargestBuffer
          /\ LargestBuffer <= UsizeMax

\* The histogram of a size mismatch, all its mass at 255, allowed by a
\* threshold whose highest band is at level 255 and has a lower band too
C19_Witness ==
    /\ pc = "checked_difference"
    /\ verdict = <<TRUE>>
    /\ given[255] = LargestBuffer
    /\ 255 \in DOMAIN threshold[1]
    /\ \E level \in DOMAIN threshold[1] : level < 255

----------------------------------------------------------------------------
(* C20 *)

\* For every interior position p of the inputs: the magnitude diff gives it
\* and the pixel_diff of the two pixels at p itself
DirectCells ==
    LET raw == raw_diff_image_of(actual, expected)
    IN  {<<At(raw, p[1] - 1, p[2] - 1),
           pixel_diff(At(actual, p[1], p[2]), At(expected, p[1], p[2]))>> :
            p \in Interior(actual.width, actual.height)}

\* C20: the neighbourhood comparison is never stricter than a comparison
\* pixel by pixel: for same-size images the magnitude diff gives an interior
\* position (x, y) is at most pixel_diff(actual(x, y), expected(x, y)), so
\* max_difference() of the histogram is at most the largest of these direct
\* distances over the interior positions.
C20_NeverStricterThanExact ==
    (Returned /\ SameSize) =>
        LET cells == DirectCells
        IN  /\ \A c \in cells : c[1] <= c[2]
            /\ \A c \in cells : TheDifference.histogram[c[1]] > 0
            /\ max_difference(TheDifference.histogram)
                   <= MaxOf({0} \cup {c[2] : c \in cells})

\* A position whose pixels differ but find a match next to them, beside a
\* position whose magnitude is its direct distance
C20_Witness ==
    /\ Returned /\ SameSize
    /\ \E c \in DirectCells, d \in DirectCells :
          /\ c[1] = 0 /\ c[2] > 0
          /\ d[1] = d[2] /\ d[2] > 0
    /\ max_difference(TheDifference.histogram) > 0

====
